---- MODULE Spec2Model ----
(***************************************************************************)
(* Model of src/logger.ts: a console logger that prefixes every message    *)
(* with a bracketed level tag, colours the tag when the process runs in    *)
(* debug mode, suppresses DEBUG lines otherwise, and writes ERROR lines to *)
(* the error stream and every other line to standard output.               *)
(*                                                                         *)
(* JavaScript strings are TLA+ strings; TLC evaluates Len, SubSeq and \o   *)
(* on them, so formatting is computed character by character.              *)
(***************************************************************************)
EXTENDS Integers, Sequences, FiniteSets, TLC

VARIABLES
  processEnv,      \* process.env after dotenv.config()
  shouldColorize,  \* per stream: the console colours what it inspects,
                   \* as it does when the stream is a colour terminal
  IS_DEBUG, ENABLE_ANSI, LOG_LEVELS, LOG_COLORS,  \* the module's constants
  calls,           \* the calls made so far, in order
  out,             \* the console writes so far, across both streams
  prefix           \* the prefix built by the last call that was not skipped

config == <<processEnv, shouldColorize, IS_DEBUG, ENABLE_ANSI, LOG_LEVELS,
            LOG_COLORS>>
vars == <<processEnv, shouldColorize, IS_DEBUG, ENABLE_ANSI, LOG_LEVELS,
          LOG_COLORS, calls, out, prefix>>

(***************************************************************************)
(* Bounds of the model.                                                    *)
(***************************************************************************)
\* number of log calls in one run of the process (specification Spec)
MaxCalls == 2
\* number of extra arguments of one call (specification SpecOneCall)
MaxArgs == 2

(***************************************************************************)
(* Characters.  TLA+ string literals have no escape for U+001B, so the     *)
(* control character \f stands for ESC; LF is the line terminator that     *)
(* the console appends to every write.                                     *)
(***************************************************************************)
ESC == "\f"
LF == "\n"

\* JavaScript's 0-based String.prototype.charAt and slice(from, to)
CharAt(s, i) == SubSeq(s, i + 1, i + 1)
Slice(s, from, to) == SubSeq(s, from + 1, to)

\* s.includes(sub)
Includes(s, sub) ==
  \E i \in 0..(Len(s) - Len(sub)) : Slice(s, i, i + Len(sub)) = sub

\* number of occurrences of the one-character string c in s
CountChar(s, c) == Cardinality({i \in 0..(Len(s) - 1) : CharAt(s, i) = c})

(***************************************************************************)
(* Configuration, evaluated once when the module is loaded.                *)
(***************************************************************************)
Levels == {"ERROR", "WARNING", "SUCCESS", "INFO", "DEBUG"}

\* the value of an environment variable: undefined when it is not set,
\* else a string
UNSET == [defined |-> FALSE, value |-> ""]
Set(s) == [defined |-> TRUE, value |-> s]
EnvStrings == {"true", "TRUE", "1", "development", "production"}
EnvValues == {UNSET} \cup {Set(s) : s \in EnvStrings}
Envs == [DEBUG : EnvValues, NODE_ENV : EnvValues]

\* the environments of the runs that make calls: nothing set, either
\* switch alone, and two settings that are not switches
RunEnvs ==
  {[DEBUG |-> UNSET,       NODE_ENV |-> UNSET],
   [DEBUG |-> Set("true"), NODE_ENV |-> UNSET],
   [DEBUG |-> UNSET,       NODE_ENV |-> Set("development")],
   [DEBUG |-> Set("TRUE"), NODE_ENV |-> Set("production")]}

\* the console's colour choice for the two streams
ColorChoices == [stdout : BOOLEAN, stderr : BOOLEAN]

\* dotenv.config(): a key of the .env file is copied into process.env
\* only when the process environment does not already define it
DotenvConfig(env, file) ==
  [k \in DOMAIN env |-> IF env[k] = UNSET THEN file[k] ELSE env[k]]

\* v === s, for an environment value v and a string literal s
StrictEquals(v, s) == v.defined /\ v.value = s

\* variant that asks for both settings at once
IS_DEBUG_both(env) ==
  StrictEquals(env.DEBUG, "true") /\ StrictEquals(env.NODE_ENV, "development")

IS_DEBUG_value(env) ==
  StrictEquals(env.DEBUG, "true") \/ StrictEquals(env.NODE_ENV, "development")

\* variant that colours the output in every mode
ENABLE_ANSI_always(isDebug) == TRUE

ENABLE_ANSI_value(isDebug) == isDebug

\* variants of the table with one entry wrong
LOG_LEVELS_infoGated(isDebug) ==
  [ERROR |-> TRUE, WARNING |-> TRUE, SUCCESS |-> TRUE,
   INFO |-> isDebug, DEBUG |-> isDebug]

LOG_LEVELS_debugOn(isDebug) ==
  [ERROR |-> TRUE, WARNING |-> TRUE, SUCCESS |-> TRUE,
   INFO |-> TRUE, DEBUG |-> TRUE]

LOG_LEVELS_value(isDebug) ==
  [ERROR   |-> TRUE,
   WARNING |-> TRUE,
   SUCCESS |-> TRUE,
   INFO    |-> TRUE,
   DEBUG   |-> isDebug]

ANSI ==
  [RESET  |-> ESC \o "[0m",
   RED    |-> ESC \o "[31m",
   GREEN  |-> ESC \o "[32m",
   BLUE   |-> ESC \o "[34m",
   YELLOW |-> ESC \o "[33m",
   GRAY   |-> ESC \o "[90m",
   BOLD      |-> ESC \o "[1m",
   DIM       |-> ESC \o "[2m",
   ITALIC    |-> ESC \o "[3m",
   UNDERLINE |-> ESC \o "[4m"]

LOG_COLORS_value ==
  [ERROR   |-> ANSI.RED,
   WARNING |-> ANSI.YELLOW,
   SUCCESS |-> ANSI.GREEN,
   INFO    |-> ANSI.BLUE,
   DEBUG   |-> ANSI.GRAY]

(***************************************************************************)
(* createStyledPrefix                                                      *)
(***************************************************************************)
\* variant that leaves the closing bracket's style switched on
createStyledPrefix_noReset(prefix_, color) ==
  IF ~ENABLE_ANSI
  THEN "[" \o prefix_ \o "]"
  ELSE ANSI.BOLD \o color \o "[" \o ANSI.ITALIC \o prefix_ \o ANSI.RESET
         \o ANSI.BOLD \o color \o "]"

createStyledPrefix(prefix_, color) ==
  IF ~ENABLE_ANSI
  THEN "[" \o prefix_ \o "]"
  ELSE ANSI.BOLD \o color \o "[" \o ANSI.ITALIC \o prefix_ \o ANSI.RESET
         \o ANSI.BOLD \o color \o "]" \o ANSI.RESET

(***************************************************************************)
(* Values passed as the extra arguments of a call (any[]): strings,        *)
(* non-negative integers, and plain objects whose properties are strings   *)
(* or integers.                                                            *)
(***************************************************************************)
\* A value is a record of its type tag and, by type, its characters, its
\* number or its properties <<key, value>> in insertion order.
Str(s) == [type |-> "string", str |-> s, num |-> 0, entries |-> <<>>]
Num(n) == [type |-> "number", str |-> "", num |-> n, entries |-> <<>>]
Obj(entries) == [type |-> "object", str |-> "", num |-> 0, entries |-> entries]

\* the result of a numeric conversion that yields no number
NaN == [nan |-> TRUE, n |-> 0]
Number(n) == [nan |-> FALSE, n |-> n]

Digits == {"0", "1", "2", "3", "4", "5", "6", "7", "8", "9"}
DigitValue(c) == CHOOSE d \in 0..9 : ToString(d) = c

\* the number written by the longest prefix of decimal digits of s,
\* continuing from acc; seen tells whether a digit has been read
RECURSIVE LeadingDigits(_, _, _)
LeadingDigits(s, acc, seen) ==
  IF s # "" /\ Head(s) \in Digits
  THEN LeadingDigits(Tail(s), 10 * acc + DigitValue(Head(s)), TRUE)
  ELSE IF seen THEN Number(acc) ELSE NaN

AllDigits(s) == \A i \in 0..(Len(s) - 1) : CharAt(s, i) \in Digits

\* Number(v), on the values above: the empty string is 0, a string of
\* decimal digits is its value, any other string and any object is NaN
ToNumber(v) ==
  CASE v.type = "number" -> Number(v.num)
    [] v.type = "string" ->
         IF v.str = "" THEN Number(0)
         ELSE IF AllDigits(v.str) THEN LeadingDigits(v.str, 0, FALSE)
         ELSE NaN
    [] OTHER -> NaN

\* String(v)
ToStr(v) ==
  CASE v.type = "number" -> ToString(v.num)
    [] v.type = "string" -> v.str
    [] OTHER -> "[object Object]"

\* parseInt(v) and parseFloat(v): the strings of the model hold no sign,
\* no leading blank and no digit followed by a decimal point, so both read
\* the leading decimal digits of String(v)
ParseInt(v) == LeadingDigits(ToStr(v), 0, FALSE)

formatNumber(x) == IF x.nan THEN "NaN" ELSE ToString(x.n)

\* inspect's stylizeWithColor / stylizeNoColor: with colours a number is
\* yellow and a string is green, each closed by the default-colour code
stylize(text, styleType, colors) ==
  IF ~colors THEN text
  ELSE IF styleType = "number" THEN ESC \o "[33m" \o text \o ESC \o "[39m"
  ELSE ESC \o "[32m" \o text \o ESC \o "[39m"

\* inspect's formatPrimitive: a number in digits, a string in quotes
formatPrimitive(v, colors) ==
  IF v.type = "number"
  THEN stylize(ToString(v.num), "number", colors)
  ELSE stylize("'" \o v.str \o "'", "string", colors)

\* the properties key: value of an object, separated by ", "
RECURSIVE formatProperties(_, _)
formatProperties(entries, colors) ==
  IF entries = <<>> THEN ""
  ELSE LET e == Head(entries)
           one == e[1] \o ": " \o formatPrimitive(e[2], colors)
       IN IF Len(entries) = 1 THEN one
          ELSE one \o ", " \o formatProperties(Tail(entries), colors)

\* util.inspect(v, {colors}): a string is quoted, an object is listed on
\* one line
inspect(v, colors) ==
  IF v.type = "object"
  THEN IF v.entries = <<>> THEN "{}"
       ELSE "{ " \o formatProperties(v.entries, colors) \o " }"
  ELSE formatPrimitive(v, colors)

\* JSON.stringify of a number or a string
stringifyPrimitive(v) ==
  IF v.type = "number" THEN ToString(v.num) ELSE "\"" \o v.str \o "\""

RECURSIVE stringifyProperties(_)
stringifyProperties(entries) ==
  IF entries = <<>> THEN ""
  ELSE LET e == Head(entries)
           one == "\"" \o e[1] \o "\":" \o stringifyPrimitive(e[2])
       IN IF Len(entries) = 1 THEN one
          ELSE one \o "," \o stringifyProperties(Tail(entries))

\* JSON.stringify(v)
tryStringify(v) ==
  IF v.type = "object"
  THEN "{" \o stringifyProperties(v.entries) \o "}"
  ELSE stringifyPrimitive(v)

(***************************************************************************)
(* console.log / console.error format their arguments with                 *)
(* util.formatWithOptions: the first argument, when it is a string and     *)
(* more arguments follow, is a format string whose %s %d %i %f %j %o %O %c *)
(* each consume one argument and whose %% is one percent sign; the         *)
(* arguments left over are appended, separated by single spaces, a string  *)
(* as it is and any other value inspected.  colors is the console's choice *)
(* for the stream written to.                                              *)
(***************************************************************************)
Placeholders == {"s", "d", "i", "f", "j", "o", "O", "c"}

formatPlaceholder(c, v, colors) ==
  CASE c = "s" -> (IF v.type = "object" THEN inspect(v, FALSE) ELSE ToStr(v))
    [] c = "d" -> formatNumber(ToNumber(v))
    [] c = "i" -> formatNumber(ParseInt(v))
    [] c = "f" -> formatNumber(ParseInt(v))
    [] c = "j" -> tryStringify(v)
    [] c = "o" -> inspect(v, colors)
    [] c = "O" -> inspect(v, colors)
    [] OTHER   -> ""

\* the 0-based positions from i on, short of the last character of first,
\* that hold a percent sign
PercentsFrom(first, i) ==
  {k \in i..(Len(first) - 2) : CharAt(first, k) = "%"}

\* the scan of the format string: argv is the whole argument list, i the
\* 0-based position in first, a the 0-based index of the last argument
\* consumed, lastPos the start of the text not yet copied to str.  The
\* loop passes over every character that is no percent sign, so the scan
\* continues at the next percent sign.
RECURSIVE formatScan(_, _, _, _, _, _, _)
formatScan(first, argv, i0, a, lastPos, str, colors) ==
  IF PercentsFrom(first, i0) = {}
  THEN [a |-> a, lastPos |-> lastPos, str |-> str]
  ELSE LET i == CHOOSE k \in PercentsFrom(first, i0) :
                  \A m \in PercentsFrom(first, i0) : k <= m
           j == i + 1
           nextChar == CharAt(first, j)
       IN IF a + 1 # Len(argv) /\ nextChar \in Placeholders
          THEN LET tempStr ==
                     formatPlaceholder(nextChar, argv[a + 2], colors)
                   copied == IF lastPos # j - 1
                             THEN str \o Slice(first, lastPos, j - 1)
                             ELSE str
               IN formatScan(first, argv, j + 1, a + 1, j + 1,
                             copied \o tempStr, colors)
          ELSE IF nextChar = "%"
          THEN formatScan(first, argv, j + 1, a, j + 1,
                          str \o Slice(first, lastPos, j), colors)
          ELSE formatScan(first, argv, j + 1, a, lastPos, str, colors)

\* the arguments from 0-based index a on, each preceded by join
RECURSIVE formatRest(_, _, _, _)
formatRest(argv, a, join, colors) ==
  IF a >= Len(argv) THEN ""
  ELSE LET value == argv[a + 1]
       IN join \o (IF value.type # "string" THEN inspect(value, colors)
                   ELSE value.str)
               \o formatRest(argv, a + 1, " ", colors)

\* util.formatWithOptions({colors}, first, ...args)
formatWithOptions(colors, first, args) ==
  LET argv == <<Str(first)>> \o args
  IN IF Len(argv) = 1 THEN first
     ELSE LET r == formatScan(first, argv, 0, 0, 0, "", colors)
          IN IF r.lastPos # 0
             THEN r.str \o (IF r.lastPos < Len(first)
                            THEN Slice(first, r.lastPos, Len(first))
                            ELSE "")
                        \o formatRest(argv, r.a + 1, " ", colors)
             ELSE formatRest(argv, 0, "", colors)

\* one write of the console: the formatted arguments and a line terminator
console_error(output, args) ==
  [stream |-> "stderr",
   data |-> formatWithOptions(shouldColorize.stderr, output, args) \o LF]

console_log(output, args) ==
  [stream |-> "stdout",
   data |-> formatWithOptions(shouldColorize.stdout, output, args) \o LF]

(***************************************************************************)
(* log: the writes a call performs, and the call as a step of the process. *)
(***************************************************************************)
\* variant that sends WARNING to the error stream as well
logEffect_warningToStderr(level, message, args) ==
  IF ~LOG_LEVELS[level]
  THEN [skipped |-> TRUE, prefix |-> "", writes |-> <<>>]
  ELSE LET p == createStyledPrefix(level, LOG_COLORS[level])
           output == p \o " " \o message
       IN [skipped |-> FALSE, prefix |-> p,
           writes |-> IF level \in {"ERROR", "WARNING"}
                      THEN <<console_error(output, args)>>
                      ELSE <<console_log(output, args)>>]

\* variant without the early return for a level that is switched off
logEffect_noGate(level, message, args) ==
  LET p == createStyledPrefix(level, LOG_COLORS[level])
      output == p \o " " \o message
  IN [skipped |-> FALSE, prefix |-> p,
      writes |-> IF level = "ERROR"
                 THEN <<console_error(output, args)>>
                 ELSE <<console_log(output, args)>>]

\* what log(level, message, ...args) does: it returns at once when the
\* level is switched off, else it builds the prefix and performs one
\* write, to the error stream for ERROR and to standard output for every
\* other level
logEffect(level, message, args) ==
  IF ~LOG_LEVELS[level]
  THEN [skipped |-> TRUE, prefix |-> "", writes |-> <<>>]
  ELSE LET p == createStyledPrefix(level, LOG_COLORS[level])
           output == p \o " " \o message
       IN [skipped |-> FALSE, prefix |-> p,
           writes |-> IF level = "ERROR"
                      THEN <<console_error(output, args)>>
                      ELSE <<console_log(output, args)>>]

\* The part of the state that calls change, st = [calls, out, prefix]; a
\* function of the program maps the state before it to the state after.

\* variant that drops a line equal to the line written last
log_dedup(st, level, message, args) ==
  LET e == logEffect(level, message, args)
  IN IF e.skipped THEN st
     ELSE IF st.out # <<>> /\ st.out[Len(st.out)] = e.writes[1]
     THEN [st EXCEPT !.prefix = e.prefix]
     ELSE [st EXCEPT !.prefix = e.prefix, !.out = @ \o e.writes]

log(st, level, message, args) ==
  LET e == logEffect(level, message, args)
  IN IF e.skipped THEN st
     ELSE [st EXCEPT !.prefix = e.prefix, !.out = @ \o e.writes]

\* variant that forwards the message without the extra arguments
createLogger_dropArgs(st, level, message, args) ==
  log(st, level, message, <<>>)

\* createLogger(level) is the closure (message, ...args) => log(level, ...)
createLogger(st, level, message, args) == log(st, level, message, args)

\* the exported object: five bindings, each createLogger applied to the
\* level given here, and the demonstration routine
logger ==
  [error   |-> [fn |-> "createLogger", level |-> "ERROR"],
   success |-> [fn |-> "createLogger", level |-> "SUCCESS"],
   info    |-> [fn |-> "createLogger", level |-> "INFO"],
   debug   |-> [fn |-> "createLogger", level |-> "DEBUG"],
   warn    |-> [fn |-> "createLogger", level |-> "WARNING"],
   test    |-> [fn |-> "testPrefixColors", level |-> ""]]

Bindings == {name \in DOMAIN logger : logger[name].fn = "createLogger"}

\* One statement: a call of a binding of logger, or of console.log itself
\* (via = "console.log").  The call is added to the history and performed.
exec(st, stmt) ==
  IF stmt.via = "console.log"
  THEN [st EXCEPT
          !.calls = Append(@, [via |-> stmt.via, level |-> "",
                               message |-> stmt.message,
                               args |-> stmt.args]),
          !.out = Append(@, console_log(stmt.message, stmt.args))]
  ELSE LET level == logger[stmt.via].level
       IN createLogger(
            [st EXCEPT !.calls = Append(@, [via |-> stmt.via,
                                            level |-> level,
                                            message |-> stmt.message,
                                            args |-> stmt.args])],
            level, stmt.message, stmt.args)

RECURSIVE run(_, _)
run(st, stmts) ==
  IF stmts = <<>> THEN st ELSE run(exec(st, Head(stmts)), Tail(stmts))

Call(via, message, args) == [via |-> via, message |-> message, args |-> args]

\* The statements of testPrefixColors.  TLA+ string literals are ASCII: a
\* character outside ASCII is written as its JavaScript escape \uXXXX.
TestStatements ==
  <<Call("console.log",
       "=== \\u30d7\\u30ec\\u30d5\\u30a3\\u30c3\\u30af" \o
       "\\u30b9\\u8272\\u4ed8\\u3051\\u30c6\\u30b9" \o
       "\\u30c8 ===", <<>>),
    Call("error",
       "\\u3053\\u308c\\u306f\\u30a8\\u30e9\\u30fc" \o
       "\\u30e1\\u30c3\\u30bb\\u30fc\\u30b8\\u3067" \o
       "\\u3059", <<>>),
    Call("success",
       "\\u3053\\u308c\\u306f\\u6210\\u529f\\u30e1" \o
       "\\u30c3\\u30bb\\u30fc\\u30b8\\u3067\\u3059", <<>>),
    Call("info",
       "\\u3053\\u308c\\u306f\\u60c5\\u5831\\u30e1" \o
       "\\u30c3\\u30bb\\u30fc\\u30b8\\u3067\\u3059", <<>>),
    Call("debug",
       "\\u3053\\u308c\\u306f\\u30c7\\u30d0\\u30c3" \o
       "\\u30b0\\u30e1\\u30c3\\u30bb\\u30fc\\u30b8" \o
       "\\u3067\\u3059", <<>>),
    Call("warn",
       "\\u3053\\u308c\\u306f\\u8b66\\u544a\\u30e1" \o
       "\\u30c3\\u30bb\\u30fc\\u30b8\\u3067\\u3059", <<>>),
    Call("console.log",
       LF \o "=== \\u8907\\u6570\\u5f15\\u6570\\u306e\\u30c6" \o
       "\\u30b9\\u30c8 ===", <<>>),
    Call("error",
       "\\u30d5\\u30a1\\u30a4\\u30eb\\u304c\\u898b" \o
       "\\u3064\\u304b\\u308a\\u307e\\u305b\\u3093:",
       <<Str("config.json")>>),
    Call("success",
       "\\u51e6\\u7406\\u5b8c\\u4e86\\u3002\\u51e6" \o
       "\\u7406\\u4ef6\\u6570:",
       <<Num(42), Str("\\u4ef6")>>),
    Call("debug",
       "\\u5909\\u6570\\u306e\\u5024:",
       <<Obj(<< <<"user", Str("test")>>, <<"id", Num(123)>> >>)>>)>>

testPrefixColors(st) == run(st, TestStatements)

(***************************************************************************)
(* Inputs.                                                                 *)
(***************************************************************************)
ArgValues ==
  {Str("config.json"), Str("items"), Num(42), Obj(<< <<"a", Num(1)>> >>)}

ArgSeqs == UNION {[1..n -> ArgValues] : n \in 0..MaxArgs}

Messages ==
  {"x not found:", "done. count:", "value:", "",
   "%d%% of %s", "100%", "%o", "loaded %O", "a" \o LF \o "b",
   ESC \o "[31mred"}

\* the pairs <<message, args>> of a single call
Inputs == Messages \X ArgSeqs

\* the pairs <<message, args>> of the calls of a longer run
SeqInputs ==
  {<<"x not found:", <<Str("config.json")>> >>,
   <<"value:", <<Obj(<< <<"a", Num(1)>> >>)>> >>}

(***************************************************************************)
(* The process: the module is loaded, then its functions are called.       *)
(***************************************************************************)
\* the module is loaded in environment env with .env file file
Load(env, file) ==
    /\ processEnv = DotenvConfig(env, file)
    /\ shouldColorize \in ColorChoices
    /\ IS_DEBUG = IS_DEBUG_value(processEnv)
    /\ ENABLE_ANSI = ENABLE_ANSI_value(IS_DEBUG)
    /\ LOG_LEVELS = LOG_LEVELS_value(IS_DEBUG)
    /\ LOG_COLORS = LOG_COLORS_value
    /\ calls = <<>>
    /\ out = <<>>
    /\ prefix = ""

Init == \E env \in RunEnvs, file \in {[DEBUG |-> UNSET, NODE_ENV |-> UNSET]} :
          Load(env, file)

\* the state before a step, and the step that leaves the state st
Current == [calls |-> calls, out |-> out, prefix |-> prefix]

Become(st) ==
  /\ calls' = st.calls
  /\ out' = st.out
  /\ prefix' = st.prefix
  /\ UNCHANGED config

\* a call of log itself
LogCall(inputs) ==
  \E level \in Levels, in \in inputs :
    Become(log([Current EXCEPT
                  !.calls = Append(@, [via |-> "log", level |-> level,
                                       message |-> in[1], args |-> in[2]])],
               level, in[1], in[2]))

\* a call of one of logger.error, .success, .info, .debug, .warn
LoggerCall(inputs) ==
  \E name \in Bindings, in \in inputs :
    Become(exec(Current, Call(name, in[1], in[2])))

\* a call of logger.test
TestCall == Become(testPrefixColors(Current))

Log == Len(calls) < MaxCalls /\ LogCall(SeqInputs)
Logger == Len(calls) < MaxCalls /\ LoggerCall(SeqInputs)
Test == Len(calls) < MaxCalls /\ TestCall

Next == Log \/ Logger \/ Test

Spec == Init /\ [][Next]_vars

\* one call of log or of a binding in a fresh process, over the full set
\* of inputs
LogOnce == calls = <<>> /\ LogCall(Inputs)
LoggerOnce == calls = <<>> /\ LoggerCall(Inputs)

NextOneCall == LogOnce \/ LoggerOnce

SpecOneCall == Init /\ [][NextOneCall]_vars

\* one call in a fresh process, over every process environment and every
\* .env file
InitEnv == \E env \in Envs, file \in Envs : Load(env, file)

LogEnv == calls = <<>> /\ LogCall(SeqInputs)
LoggerEnv == calls = <<>> /\ LoggerCall(SeqInputs)
TestEnv == calls = <<>> /\ TestCall

NextEnv == LogEnv \/ LoggerEnv \/ TestEnv

SpecEnv == InitEnv /\ [][NextEnv]_vars

(***************************************************************************)
(* Vocabulary of the properties.                                           *)
(***************************************************************************)
\* the level each convenience function is documented to log at
BoundLevel ==
  [error   |-> "ERROR",
   warn    |-> "WARNING",
   success |-> "SUCCESS",
   info    |-> "INFO",
   debug   |-> "DEBUG"]

\* the level of a recorded call of log or of a convenience function
CallLevel(c) ==
  IF c.via \in DOMAIN BoundLevel THEN BoundLevel[c.via] ELSE c.level

\* the stream a level is documented to write to
ExpectedStream(level) == IF level = "ERROR" THEN "stderr" ELSE "stdout"

\* the number of lines of one write: the line terminators it holds
LinesOf(w) == CountChar(w.data, LF)

\* some string among the message and the extra arguments of c holds ch
CallHasChar(c, ch) ==
  \/ Includes(c.message, ch)
  \/ \E i \in 1..Len(c.args) :
       c.args[i].type = "string" /\ Includes(c.args[i].str, ch)

AlwaysOnBindings == {"error", "warn", "success", "info"}

(***************************************************************************)
(* C1                                                                      *)
(***************************************************************************)
\* C1 as stated: a call of logger.error, .warn, .success or .info, with any
\* message and in either debug mode, produces exactly one line of output,
\* on the error stream for ERROR and on standard output otherwise.
C1_OneLinePerCall ==
  (calls # <<>> /\ calls[1].via \in AlwaysOnBindings) =>
    /\ Len(out) = 1
    /\ out[1].stream = ExpectedStream(BoundLevel[calls[1].via])
    /\ LinesOf(out[1]) = 1

\* C1 amended: such a call performs exactly one write, to the expected
\* stream, and that write is a single line provided neither the message
\* nor an extra argument holds a line break.
C1_OneWritePerCall ==
  (calls # <<>> /\ calls[1].via \in AlwaysOnBindings) =>
    /\ Len(out) = 1
    /\ out[1].stream = ExpectedStream(BoundLevel[calls[1].via])
    /\ (~CallHasChar(calls[1], LF) => LinesOf(out[1]) = 1)
    /\ LinesOf(out[1]) >= 1

C1_Witness ==
  /\ calls # <<>>
  /\ calls[1].via = "info"
  /\ ~IS_DEBUG
  /\ calls[1].message = "done. count:"
  /\ Len(calls[1].args) = 2
  /\ Len(out) = 1
  /\ out[1].stream = "stdout"
  /\ LinesOf(out[1]) = 1

(***************************************************************************)
(* C2                                                                      *)
(***************************************************************************)
\* C2: a DEBUG-level call (log('DEBUG', ...) or logger.debug) produces
\* output if and only if debug mode was on when the module was configured;
\* when it was off the call writes nothing to either stream and builds no
\* prefix, whatever the message and the extra arguments.
C2_DebugGated ==
  (calls # <<>> /\ CallLevel(calls[1]) = "DEBUG") =>
    /\ (out # <<>>) <=> IS_DEBUG
    /\ IS_DEBUG => Len(out) = 1
    /\ ~IS_DEBUG => (out = <<>> /\ prefix = "")

C2_Witness ==
  /\ calls # <<>>
  /\ calls[1].via = "log"
  /\ calls[1].level = "DEBUG"
  /\ calls[1].message = "value:"
  /\ calls[1].args = <<Obj(<< <<"a", Num(1)>> >>)>>
  /\ ~IS_DEBUG
  /\ out = <<>>

(***************************************************************************)
(* C3                                                                      *)
(***************************************************************************)
\* the writes ws are accounted for, in order, by the calls cs: a call of
\* console.log itself by one write, a log call by no write or by one write
\* on the stream of its level
RECURSIVE Accounts(_, _)
Accounts(cs, ws) ==
  IF cs = <<>> THEN ws = <<>>
  ELSE IF Head(cs).via = "console.log"
  THEN ws # <<>> /\ Accounts(Tail(cs), Tail(ws))
  ELSE \/ Accounts(Tail(cs), ws)
       \/ /\ ws # <<>>
          /\ Head(ws).stream \in {"stderr", "stdout"}
          /\ (Head(ws).stream = "stderr")
               <=> (CallLevel(Head(cs)) = "ERROR")
          /\ Accounts(Tail(cs), Tail(ws))

\* C3: every log call performs at most one write; the write goes to the
\* error stream if and only if the level is ERROR, every other level writes
\* to standard output only, and no call writes to both streams.
C3_OneWriteByLevel == Accounts(calls, out)

C3_Witness ==
  /\ Len(calls) = 10
  /\ ~IS_DEBUG
  /\ Len(out) = 8
  /\ out[2].stream = "stderr"
  /\ out[3].stream = "stdout"

(***************************************************************************)
(* C4                                                                      *)
(***************************************************************************)
\* the colour each level is documented to use
ExpectedColor ==
  [ERROR   |-> ESC \o "[31m",
   WARNING |-> ESC \o "[33m",
   SUCCESS |-> ESC \o "[32m",
   INFO    |-> ESC \o "[34m",
   DEBUG   |-> ESC \o "[90m"]

\* C4 as stated: with debug mode off no output line holds an escape
\* character; with debug mode on every line holds its level's colour code.
C4_NoEscapeWhenPlain ==
  \A i \in 1..Len(out) :
    /\ ~IS_DEBUG => ~Includes(out[i].data, ESC)
    /\ IS_DEBUG => Includes(out[i].data, ExpectedColor[CallLevel(calls[1])])

\* the console inspects an extra argument of c: one that is not a string,
\* or any one when a %o or %O of the message can consume it
Inspects(c) ==
  \/ \E k \in 1..Len(c.args) : c.args[k].type # "string"
  \/ /\ c.args # <<>>
     /\ Includes(c.message, "%o") \/ Includes(c.message, "%O")

\* C4 amended: with debug mode off the prefix holds no escape character and
\* an output line holds one only where the message or an extra argument of
\* the call holds one, or where the console itself colours an extra
\* argument that it inspects (one that is not a string, or any one that a
\* %o or %O of the message consumes) because the stream is a colour
\* terminal; with debug mode on every line holds its level's colour code.
C4_NoEscapeAdded ==
  \A i \in 1..Len(out) :
    /\ ~IS_DEBUG =>
         /\ ~Includes(prefix, ESC)
         /\ Includes(out[i].data, ESC) =>
              \/ CallHasChar(calls[1], ESC)
              \/ /\ shouldColorize[out[i].stream]
                 /\ Inspects(calls[1])
    /\ IS_DEBUG => Includes(out[i].data, ExpectedColor[CallLevel(calls[1])])

\* debug mode off, standard output a colour terminal: the console colours
\* the string that %o consumes
C4_Witness ==
  /\ calls # <<>>
  /\ ~IS_DEBUG
  /\ calls[1].via = "info"
  /\ calls[1].message = "%o"
  /\ calls[1].args = <<Str("config.json")>>
  /\ shouldColorize.stdout
  /\ ~Includes(prefix, ESC)
  /\ out = <<[stream |-> "stdout",
              data |-> "[INFO] " \o ESC \o "[32m'config.json'" \o ESC
                         \o "[39m" \o LF]>>

(***************************************************************************)
(* C5                                                                      *)
(***************************************************************************)
\* an extra argument as the stream displays it: a string as it is, any
\* other value in its inspected form, coloured where the console colours
Stringify(v, colors) ==
  IF v.type = "string" THEN v.str ELSE inspect(v, colors)

RECURSIVE SpaceJoined(_, _)
SpaceJoined(args, colors) ==
  IF args = <<>> THEN ""
  ELSE " " \o Stringify(Head(args), colors)
           \o SpaceJoined(Tail(args), colors)

\* C5: with debug mode off, log(L, m, a1..an) for an enabled level L writes
\* exactly the line "[L] m" followed by the extra arguments in their order,
\* each stringified and preceded by a single space, to the stream of L.
C5_ExactLine ==
  (calls # <<>> /\ ~IS_DEBUG /\ CallLevel(calls[1]) # "DEBUG") =>
    LET L == CallLevel(calls[1])
        stream == ExpectedStream(L)
    IN out = <<[stream |-> stream,
                data |-> "[" \o L \o "] " \o calls[1].message
                           \o SpaceJoined(calls[1].args,
                                          shouldColorize[stream])
                           \o LF]>>

(***************************************************************************)
(* C6                                                                      *)
(***************************************************************************)
\* the prefix documented for level L, with colour output on or off
ExpectedPrefix(L, coloured) ==
  IF coloured
  THEN ANSI.BOLD \o ExpectedColor[L] \o "[" \o ANSI.ITALIC \o L
         \o ANSI.RESET \o ANSI.BOLD \o ExpectedColor[L] \o "]"
         \o ANSI.RESET
  ELSE "[" \o L \o "]"

\* C6: with colour output on, the prefix built for level L is exactly
\* BOLD, colour(L), "[", ITALIC, L, RESET, BOLD, colour(L), "]", RESET and
\* the line continues with a space after that final RESET; with colour
\* output off the prefix is exactly "[L]".
C6_PrefixShape ==
  (calls # <<>> /\ LOG_LEVELS[CallLevel(calls[1])]) =>
    LET L == CallLevel(calls[1])
        expected == ExpectedPrefix(L, ENABLE_ANSI)
    IN /\ prefix = expected
       /\ Len(out) = 1
       /\ Slice(out[1].data, 0, Len(expected) + 1) = expected \o " "

C6_Witness ==
  /\ calls # <<>>
  /\ ENABLE_ANSI
  /\ CallLevel(calls[1]) = "DEBUG"
  /\ prefix = ESC \o "[1m" \o ESC \o "[90m[" \o ESC \o "[3mDEBUG" \o ESC
                \o "[0m" \o ESC \o "[1m" \o ESC \o "[90m]" \o ESC \o "[0m"

(***************************************************************************)
(* C7                                                                      *)
(***************************************************************************)
C7_Table ==
  /\ DOMAIN LOG_LEVELS = Levels
  /\ \A L \in Levels : LOG_LEVELS[L] \in BOOLEAN
  /\ \A L \in Levels \ {"DEBUG"} : LOG_LEVELS[L]
  /\ LOG_LEVELS["DEBUG"] = IS_DEBUG

\* C7: in every state after configuration the enabled table has exactly one
\* entry per level, ERROR, WARNING, SUCCESS and INFO are enabled and the
\* DEBUG entry equals the debug-mode flag; and no call, in any number or
\* order, changes the enabled table, the colour table or the colour flag.
C7_ConfigFixed ==
  /\ []C7_Table
  /\ [][UNCHANGED <<LOG_LEVELS, LOG_COLORS, ENABLE_ANSI>>]_vars

C7_Witness ==
  /\ Len(calls) = 2
  /\ calls[1].via = "debug"
  /\ calls[2].via = "log"
  /\ ~IS_DEBUG
  /\ ~LOG_LEVELS["DEBUG"]
  /\ LOG_LEVELS["INFO"]

(***************************************************************************)
(* C8                                                                      *)
(***************************************************************************)
\* C8: a call logger.<name>(m, ...a) has exactly the effect of
\* log(L, m, ...a) for the level L bound to <name>: the same writes, to the
\* same streams, with the message and the extra arguments unchanged and in
\* order.
C8_BindingForwards ==
  (calls # <<>> /\ calls[1].via # "log") =>
    LET c == calls[1]
        e == logEffect(BoundLevel[c.via], c.message, c.args)
    IN /\ out = e.writes
       /\ prefix = (IF e.skipped THEN "" ELSE e.prefix)

C8_Witness ==
  /\ calls # <<>>
  /\ calls[1].via = "warn"
  /\ ~IS_DEBUG
  /\ out = <<[stream |-> "stdout",
              data |-> "[WARNING] done. count: 42 items" \o LF]>>

(***************************************************************************)
(* C9                                                                      *)
(***************************************************************************)
\* a line that starts with the styled prefix
Coloured(w) == Slice(w.data, 0, Len(ANSI.BOLD)) = ANSI.BOLD

\* the lines that calls of console.log itself have written
DirectLines ==
  {console_log(calls[k].message, calls[k].args) :
     k \in {n \in 1..Len(calls) : calls[n].via = "console.log"}}

\* C9: debug mode is on exactly when DEBUG is the string 'true' or NODE_ENV
\* is the string 'development'; the colour flag equals debug mode and so
\* does the DEBUG entry of the enabled table, hence every line written by
\* log is coloured exactly when DEBUG lines are enabled.
C9_DebugModeAndColour ==
  /\ IS_DEBUG <=> \/ processEnv.DEBUG = Set("true")
                  \/ processEnv.NODE_ENV = Set("development")
  /\ ENABLE_ANSI = IS_DEBUG
  /\ LOG_LEVELS["DEBUG"] = ENABLE_ANSI
  /\ \A i \in 1..Len(out) :
       out[i] \notin DirectLines => (Coloured(out[i]) <=> LOG_LEVELS["DEBUG"])

C9_Witness ==
  /\ processEnv.DEBUG = Set("TRUE")
  /\ processEnv.NODE_ENV = Set("production")
  /\ ~IS_DEBUG
  /\ Len(calls) = 1
  /\ CallLevel(calls[1]) = "INFO"
  /\ Len(out) = 1
  /\ ~Coloured(out[1])

(***************************************************************************)
(* C10                                                                     *)
(***************************************************************************)
\* what one call is documented to write, from the call, the debug mode and
\* the console's colour choice for the stream of the call's level; a call
\* of console.log itself writes its own line
ExpectedWrite(c, debug) ==
  LET L == CallLevel(c)
  IN IF c.via = "console.log"
     THEN <<[stream |-> "stdout",
             data |-> formatWithOptions(shouldColorize.stdout, c.message,
                                        c.args) \o LF]>>
     ELSE IF L = "DEBUG" /\ ~debug
     THEN <<>>
     ELSE <<[stream |-> ExpectedStream(L),
             data |-> formatWithOptions(
                        shouldColorize[ExpectedStream(L)],
                        ExpectedPrefix(L, debug) \o " " \o c.message,
                        c.args) \o LF]>>

RECURSIVE ExpectedWrites(_, _)
ExpectedWrites(cs, debug) ==
  IF cs = <<>> THEN <<>>
  ELSE ExpectedWrite(Head(cs), debug) \o ExpectedWrites(Tail(cs), debug)

\* C10: the writes observed across both streams are, in call order, one
\* write for each call whose level is enabled and none for the others, and
\* each write is determined by its own call and the fixed configuration
\* (the debug mode and the console's colour choice for the stream) alone,
\* never by an earlier call.
C10_WritesFollowCalls == out = ExpectedWrites(calls, IS_DEBUG)

C10_Witness ==
  /\ Len(calls) = 2
  /\ calls[1] = calls[2]
  /\ CallLevel(calls[1]) = "ERROR"
  /\ Len(out) = 2
  /\ out[1] = out[2]

====
